---- MODULE Spec2Model ----
(***************************************************************************)
(* Model of the run-log filtering utility filterLogs of the web console.   *)
(* filterLogs is a pure function of three arguments (the log batch, the    *)
(* filter and the relevant step keys); the specification Spec draws the    *)
(* arguments from bounded sets and applies the function.                   *)
(*                                                                         *)
(* The InstanceConfig component, which highlights the configuration        *)
(* section named by the location hash, is the state machine of the         *)
(* specification SpecInstanceConfig: its first render, its effect, its     *)
(* later renders and its unmount are steps, interleaved with the location  *)
(* changes of the history object.                                          *)
(*                                                                         *)
(* JavaScript strings that the code lower-cases, searches or compares are  *)
(* sequences of one-character strings; an optional value (string | null,   *)
(* number | undefined) is a record [some, v].                              *)
(***************************************************************************)
EXTENDS Integers, Sequences, FiniteSets, TLC

VARIABLES logs, filter, filterStepKeys, result, pc

\* The arguments, the result and the position of the call of filterLogs.
filterLogsVars == <<logs, filter, filterStepKeys, result, pc>>

\* The InstanceConfig component and the history object it listens to:
\*   phase       the position of the component in its life cycle
\*   hash        the component's state variable (useState)
\*   pendingHash the value of a setHash call that no render has applied yet
\*   needsRender a render of the component is scheduled
\*   data        the result of the instance configuration query
\*   view        what the last render returned
\*   location    the hash of the current location (document.location.hash)
\*   listening   the component's listener is registered with the history
\*   changes     the number of location changes so far
VARIABLES phase, hash, pendingHash, needsRender, data, view, location, listening, changes

instanceConfigVars ==
    <<phase, hash, pendingHash, needsRender, data, view, location, listening, changes>>

vars == <<filterLogsVars, instanceConfigVars>>

(***************************************************************************)
(* Bounds of the model                                                     *)
(***************************************************************************)
MaxLogs == 2

MaxChanges == 3

(***************************************************************************)
(* Values                                                                  *)
(***************************************************************************)
None == [some |-> FALSE, v |-> <<>>]

Some(x) == [some |-> TRUE, v |-> x]

NoTime == [some |-> FALSE, v |-> 0]

EmptyString == <<>>

\* JavaScript truthiness of a string | null value: null and '' are falsy.
TruthyString(o) == o.some /\ o.v # EmptyString

\* JavaScript truthiness of a number | undefined value: undefined and 0 are falsy.
TruthyNumber(o) == o.some /\ o.v # 0

Upper == <<"A","B","C","D","E","F","G","H","I","J","K","L","M",
           "N","O","P","Q","R","S","T","U","V","W","X","Y","Z">>

Lower == <<"a","b","c","d","e","f","g","h","i","j","k","l","m",
           "n","o","p","q","r","s","t","u","v","w","x","y","z">>

\* The lower-case letter of each upper-case letter, as a lookup table.
LowerOf ==
    [c \in {Upper[i] : i \in 1..Len(Upper)} |->
        Lower[CHOOSE i \in 1..Len(Upper) : Upper[i] = c]]

LowerChar(c) == IF c \in DOMAIN LowerOf THEN LowerOf[c] ELSE c

\* String.prototype.toLowerCase
toLowerCase(s) == [i \in 1..Len(s) |-> LowerChar(s[i])]

\* String.prototype.includes: sub occurs in s as a contiguous substring.
includes(s, sub) ==
    \E i \in 0..(Len(s) - Len(sub)) : SubSeq(s, i + 1, i + Len(sub)) = sub

Digits == <<"0","1","2","3","4","5","6","7","8","9">>

\* The value of each decimal digit, as a lookup table.
DigitValueOf ==
    [c \in {Digits[i] : i \in 1..Len(Digits)} |->
        (CHOOSE d \in 1..Len(Digits) : Digits[d] = c) - 1]

DigitValue(c) == DigitValueOf[c]

RECURSIVE DigitsValue(_)
DigitsValue(s) ==
    IF s = <<>> THEN 0
    ELSE DigitsValue(SubSeq(s, 1, Len(s) - 1)) * 10 + DigitValue(s[Len(s)])

\* Number(string) on the decimal integer strings the timestamps are.
Number(s) ==
    IF s # <<>> /\ Head(s) = "-" THEN 0 - DigitsValue(Tail(s)) ELSE DigitsValue(s)

\* Array.prototype.includes on the step key array.
arrayIncludes(arr, x) == \E i \in 1..Len(arr) : arr[i] = x

(***************************************************************************)
(* External collaborators of filterLogs                                    *)
(***************************************************************************)
MATERIALIZATION == <<"M","A","T","E","R","I","A","L","I","Z","A","T","I","O","N">>

RUN_START == <<"R","U","N","_","S","T","A","R","T">>

ASSET_CHECK_EVALUATION_PLANNED ==
    <<"A","S","S","E","T","_","C","H","E","C","K","_","E","V","A","L","U","A","T","I","O","N","_","P","L","A","N","N","E","D">>

STEP_START == <<"S","T","E","P","_","S","T","A","R","T">>

\* eventTypeToDisplayType: a total lookup from the raw event type to the
\* string shown for it; types without a special display form map to their
\* own name.
eventTypeToDisplayType(eventType) ==
    CASE eventType = "ASSET_MATERIALIZATION" -> MATERIALIZATION
      [] eventType = "ASSET_MATERIALIZATION_PLANNED" -> MATERIALIZATION
      [] eventType = "PIPELINE_START" -> RUN_START
      [] eventType = "STEP_START" -> STEP_START
      [] eventType = "ASSET_CHECK_EVALUATION_PLANNED" -> ASSET_CHECK_EVALUATION_PLANNED

\* logNodeLevel: a total classification of a record by its kind and shape.
logNodeLevel(node) ==
    IF node.__typename = "LogMessageEvent" THEN node.level ELSE "EVENT"

(***************************************************************************)
(* filterLogs                                                              *)
(***************************************************************************)
\* Variant: only the materialization planning kind is recognised.
isPlannedEventMaterializationOnly(node) ==
    node.__typename = "AssetMaterializationPlannedEvent"

\* The planning events that are never displayed.
isPlannedEvent(node) ==
    \/ node.__typename = "AssetMaterializationPlannedEvent"
    \/ node.__typename = "AssetCheckEvaluationPlannedEvent"

\* Variant: a level counts as enabled as soon as the table lists it.
levelEnabledIfListed(f, l) == l \in DOMAIN f.levels

\* Variant: only an entry that is false switches a level off.
levelEnabledUnlessFalse(f, l) == l \notin DOMAIN f.levels \/ f.levels[l]

\* Variant: the test of the table entry is inverted.
levelEnabledNegated(f, l) == ~(l \in DOMAIN f.levels /\ f.levels[l])

\* filter.levels[l] is truthy: the table has an entry for l and it is true.
levelEnabled(f, l) == l \in DOMAIN f.levels /\ f.levels[l]

\* Variant: the boundary timestamp is dropped too.
beforeSinceTimeInclusive(f, node) ==
    TruthyNumber(f.sinceTime) /\ Number(node.timestamp) <= f.sinceTime.v

\* filter.sinceTime && Number(node.timestamp) < filter.sinceTime
beforeSinceTime(f, node) == TruthyNumber(f.sinceTime) /\ Number(node.timestamp) < f.sinceTime.v

\* The callback of the first filter: the record survives kind, level and time.
keepNode(f, node) ==
    IF isPlannedEvent(node) THEN FALSE
    ELSE IF ~levelEnabled(f, logNodeLevel(node)) THEN FALSE
    ELSE IF beforeSinceTime(f, node) THEN FALSE
    ELSE TRUE

\* Variant: any non-empty query counts as active.
hasTextFilterAnyTerm(f) == Len(f.logQuery) >= 1

hasTextFilter(f) == Len(f.logQuery) >= 1 /\ f.logQuery[1].value # EmptyString

\* Variant: the scope term only asks for a step key.
matchTermScopeAnyStep(term, node, stepKeys) ==
    IF term.token = "query"
    THEN TruthyString(node.stepKey)
    ELSE IF term.token = "step"
    THEN TruthyString(node.stepKey) /\ node.stepKey.v = term.value
    ELSE IF term.token = "type"
    THEN node.eventType.some /\ term.value = eventTypeToDisplayType(node.eventType.v)
    ELSE includes(toLowerCase(node.message), toLowerCase(term.value))

\* Variant: the step term matches by substring.
matchTermStepSubstring(term, node, stepKeys) ==
    IF term.token = "query"
    THEN TruthyString(node.stepKey) /\ arrayIncludes(stepKeys, node.stepKey.v)
    ELSE IF term.token = "step"
    THEN TruthyString(node.stepKey) /\ includes(node.stepKey.v, term.value)
    ELSE IF term.token = "type"
    THEN node.eventType.some /\ term.value = eventTypeToDisplayType(node.eventType.v)
    ELSE includes(toLowerCase(node.message), toLowerCase(term.value))

\* Variant: the type token is not recognised and falls through to free text.
matchTermTypeAsText(term, node, stepKeys) ==
    IF term.token = "query"
    THEN TruthyString(node.stepKey) /\ arrayIncludes(stepKeys, node.stepKey.v)
    ELSE IF term.token = "step"
    THEN TruthyString(node.stepKey) /\ node.stepKey.v = term.value
    ELSE includes(toLowerCase(node.message), toLowerCase(term.value))

\* Variant: the free-text test compares without lower-casing.
matchTermCaseSensitive(term, node, stepKeys) ==
    IF term.token = "query"
    THEN TruthyString(node.stepKey) /\ arrayIncludes(stepKeys, node.stepKey.v)
    ELSE IF term.token = "step"
    THEN TruthyString(node.stepKey) /\ node.stepKey.v = term.value
    ELSE IF term.token = "type"
    THEN node.eventType.some /\ term.value = eventTypeToDisplayType(node.eventType.v)
    ELSE includes(node.message, term.value)

\* Variant: a term with a token that is not recognised is ignored.
matchTermUnknownIgnored(term, node, stepKeys) ==
    IF term.token = "query"
    THEN TruthyString(node.stepKey) /\ arrayIncludes(stepKeys, node.stepKey.v)
    ELSE IF term.token = "step"
    THEN TruthyString(node.stepKey) /\ node.stepKey.v = term.value
    ELSE IF term.token = "type"
    THEN node.eventType.some /\ term.value = eventTypeToDisplayType(node.eventType.v)
    ELSE IF term.token = ""
    THEN includes(toLowerCase(node.message), toLowerCase(term.value))
    ELSE TRUE

\* Variant: a record without the optional field passes the step and type terms.
matchTermMissingFieldPasses(term, node, stepKeys) ==
    IF term.token = "query"
    THEN TruthyString(node.stepKey) /\ arrayIncludes(stepKeys, node.stepKey.v)
    ELSE IF term.token = "step"
    THEN ~TruthyString(node.stepKey) \/ node.stepKey.v = term.value
    ELSE IF term.token = "type"
    THEN ~node.eventType.some \/ term.value = eventTypeToDisplayType(node.eventType.v)
    ELSE includes(toLowerCase(node.message), toLowerCase(term.value))

\* Variant: a free-text term with an empty value matches nothing.
matchTermEmptyTextFails(term, node, stepKeys) ==
    IF term.token = "query"
    THEN TruthyString(node.stepKey) /\ arrayIncludes(stepKeys, node.stepKey.v)
    ELSE IF term.token = "step"
    THEN TruthyString(node.stepKey) /\ node.stepKey.v = term.value
    ELSE IF term.token = "type"
    THEN node.eventType.some /\ term.value = eventTypeToDisplayType(node.eventType.v)
    ELSE /\ term.value # EmptyString
         /\ includes(toLowerCase(node.message), toLowerCase(term.value))

\* Variant: the step term compares without asking for a non-empty step key.
matchTermStepUnguarded(term, node, stepKeys) ==
    IF term.token = "query"
    THEN TruthyString(node.stepKey) /\ arrayIncludes(stepKeys, node.stepKey.v)
    ELSE IF term.token = "step"
    THEN node.stepKey.some /\ node.stepKey.v = term.value
    ELSE IF term.token = "type"
    THEN node.eventType.some /\ term.value = eventTypeToDisplayType(node.eventType.v)
    ELSE includes(toLowerCase(node.message), toLowerCase(term.value))

\* The callback of logQuery.every: one term against one record.
matchTerm(term, node, stepKeys) ==
    IF term.token = "query"
    THEN TruthyString(node.stepKey) /\ arrayIncludes(stepKeys, node.stepKey.v)
    ELSE IF term.token = "step"
    THEN TruthyString(node.stepKey) /\ node.stepKey.v = term.value
    ELSE IF term.token = "type"
    THEN node.eventType.some /\ term.value = eventTypeToDisplayType(node.eventType.v)
    ELSE includes(toLowerCase(node.message), toLowerCase(term.value))

\* Variant: one matching term is enough.
matchesQueryAnyTerm(f, node, stepKeys) ==
    /\ Len(f.logQuery) > 0
    /\ \E i \in 1..Len(f.logQuery) : matchTerm(f.logQuery[i], node, stepKeys)

\* Variant: only the first term of the query is evaluated.
matchesQueryFirstTermOnly(f, node, stepKeys) ==
    /\ Len(f.logQuery) > 0
    /\ matchTerm(f.logQuery[1], node, stepKeys)

\* The callback of the second filter: the query is non-empty and every term holds.
matchesQuery(f, node, stepKeys) ==
    /\ Len(f.logQuery) > 0
    /\ \A i \in 1..Len(f.logQuery) : matchTerm(f.logQuery[i], node, stepKeys)

Reverse(s) == [i \in 1..Len(s) |-> s[Len(s) + 1 - i]]

\* Variant: the surviving records are returned newest first.
filteredNodesOfNewestFirst(allNodes, f) ==
    Reverse(SelectSeq(allNodes, LAMBDA node : keepNode(f, node)))

\* Variant: the callback also tests the index, so the first record is skipped.
filteredNodesOfSkippingFirst(allNodes, f) ==
    IF allNodes = <<>> THEN <<>>
    ELSE SelectSeq(Tail(allNodes), LAMBDA node : keepNode(f, node))

filteredNodesOf(allNodes, f) == SelectSeq(allNodes, LAMBDA node : keepNode(f, node))

\* Variant: the query is run over all records instead of the surviving ones.
textMatchNodesOfAllNodes(allNodes, f, stepKeys) ==
    IF hasTextFilter(f)
    THEN SelectSeq(allNodes, LAMBDA node : matchesQuery(f, node, stepKeys))
    ELSE <<>>

textMatchNodesOf(allNodes, f, stepKeys) ==
    IF hasTextFilter(f)
    THEN SelectSeq(filteredNodesOf(allNodes, f), LAMBDA node : matchesQuery(f, node, stepKeys))
    ELSE <<>>

\* Variant: an active query always hides the records that do not match.
filterLogsAlwaysHide(allNodes, f, stepKeys) ==
    [filteredNodes |->
        IF hasTextFilter(f)
        THEN textMatchNodesOf(allNodes, f, stepKeys)
        ELSE filteredNodesOf(allNodes, f),
     textMatchNodes |-> textMatchNodesOf(allNodes, f, stepKeys)]

\* Variant: the matches are reported only while the others are hidden.
filterLogsMatchesOnlyWhenHiding(allNodes, f, stepKeys) ==
    [filteredNodes |->
        IF hasTextFilter(f) /\ f.hideNonMatches
        THEN textMatchNodesOf(allNodes, f, stepKeys)
        ELSE filteredNodesOf(allNodes, f),
     textMatchNodes |->
        IF f.hideNonMatches THEN textMatchNodesOf(allNodes, f, stepKeys) ELSE <<>>]

filterLogs(allNodes, f, stepKeys) ==
    [filteredNodes |->
        IF hasTextFilter(f) /\ f.hideNonMatches
        THEN textMatchNodesOf(allNodes, f, stepKeys)
        ELSE filteredNodesOf(allNodes, f),
     textMatchNodes |-> textMatchNodesOf(allNodes, f, stepKeys)]

(***************************************************************************)
(* The arguments the calls are checked on                                  *)
(***************************************************************************)
StepA == <<"A">>

StepAB == <<"A","B">>

Node(__typename, level, timestamp, stepKey, eventType, message) ==
    [__typename |-> __typename, level |-> level, timestamp |-> timestamp,
     stepKey |-> stepKey, eventType |-> eventType, message |-> message]

Nodes ==
    { Node("AssetMaterializationPlannedEvent", "DEBUG", <<"1","0">>, Some(StepA),
           Some("ASSET_MATERIALIZATION_PLANNED"), <<"F","o","o">>),
      Node("AssetCheckEvaluationPlannedEvent", "DEBUG", <<"2">>, Some(StepA),
           Some("ASSET_CHECK_EVALUATION_PLANNED"), <<"f","o","o","b","a","r">>),
      Node("MaterializationEvent", "DEBUG", <<"1","0">>, Some(StepA),
           Some("ASSET_MATERIALIZATION"), <<"F","o","o">>),
      Node("ExecutionStepStartEvent", "DEBUG", <<"-","1">>, Some(StepAB),
           Some("STEP_START"), <<"f","o","o","b","a","r">>),
      Node("LogMessageEvent", "INFO", <<"2">>, None, None, <<"S","t","e","p"," ","F","a","i","l","e","d">>),
      Node("LogMessageEvent", "INFO", <<"-","1">>, Some(EmptyString), None, <<"f","o","o","b","a","r">>) }

\* The token of a free-text term is undefined in the code; "" stands for it.
NoToken == ""

Term(token, value) == [token |-> token, value |-> value]

Terms ==
    { Term("query", <<"A","+">>),
      Term("step", StepA), Term("step", EmptyString),
      Term("type", MATERIALIZATION),
      Term(NoToken, <<"f","O","o">>), Term(NoToken, EmptyString),
      Term("other", <<"F","A","I","L","E","D">>) }

LogQueries ==
    {<<>>} \cup {<<t>> : t \in Terms} \cup {<<t, u>> : t \in Terms, u \in Terms}

LevelTables ==
    { [l \in {"INFO", "EVENT"} |-> TRUE],
      [l \in {"INFO", "EVENT"} |-> l # "INFO"],
      [l \in {"EVENT"} |-> TRUE] }

SinceTimes == {NoTime, Some(0), Some(2)}

LogFilters ==
    [levels : LevelTables, sinceTime : SinceTimes, logQuery : LogQueries,
     hideNonMatches : BOOLEAN]

StepKeyArrays == {<<>>, <<EmptyString, StepA>>}

SeqsUpTo(S, n) == UNION {[1..k -> S] : k \in 0..n}

NoResult == [filteredNodes |-> <<>>, textMatchNodes |-> <<>>]

(***************************************************************************)
(* InstanceConfig                                                          *)
(***************************************************************************)
WordChars ==
    {Upper[i] : i \in 1..Len(Upper)} \cup {Lower[i] : i \in 1..Len(Lower)}
        \cup {Digits[i] : i \in 1..Len(Digits)} \cup {"_"}

\* The positions of s at which /\n(?=\w)/ matches: a line break followed by
\* a word character.
TopLevelBreaks(s) ==
    {i \in 1..(Len(s) - 1) : s[i] = "\n" /\ s[i + 1] \in WordChars}

Min(S) == CHOOSE x \in S : \A y \in S : x <= y

\* data.instance.info.split(/\n(?=\w)/g)
RECURSIVE splitSections(_)
splitSections(s) ==
    IF TopLevelBreaks(s) = {} THEN <<s>>
    ELSE <<SubSeq(s, 1, Min(TopLevelBreaks(s)) - 1)>>
            \o splitSections(SubSeq(s, Min(TopLevelBreaks(s)) + 1, Len(s)))

\* const [id] = section.split(/\:/): the text before the first colon.
sectionId(section) ==
    IF \E i \in 1..Len(section) : section[i] = ":"
    THEN SubSeq(section, 1, Min({i \in 1..Len(section) : section[i] = ":"}) - 1)
    ELSE section

\* `#${id}`
hashForSection(id) == <<"#">> \o id

\* What the component returns for the stored hash h and the query result d:
\* the spinner while there is no data, else one block per section.
render(h, d) ==
    IF ~d.some THEN [spinner |-> TRUE, sections |-> <<>>]
    ELSE [spinner |-> FALSE,
          sections |->
            [i \in 1..Len(splitSections(d.v)) |->
                [id |-> sectionId(splitSections(d.v)[i]),
                 highlighted |-> h = hashForSection(sectionId(splitSections(d.v)[i]))]]]

\* The hashes a location can have: none, or '#' and a fragment.
Hashes == {EmptyString, <<"#","a">>, <<"#","b">>}

\* Configuration documents: two top-level keys; one key with a nested key.
Infos ==
    { <<"a",":"," ","1","\n","b",":"," ","2">>,
      <<"b",":","\n"," ","a",":"," ","1">> }

NoView == [spinner |-> TRUE, sections |-> <<>>]

Mounted == phase \in {"rendered", "subscribed"}

\* The call has not been made and no call is being looked at.
filterLogsIdle ==
    /\ logs = <<>>
    /\ filter = [levels |-> [l \in {"INFO", "EVENT"} |-> TRUE], sinceTime |-> NoTime,
                 logQuery |-> <<>>, hideNonMatches |-> FALSE]
    /\ filterStepKeys = <<>>
    /\ result = NoResult
    /\ pc = "ready"

\* The component has not been mounted.
instanceConfigIdle ==
    /\ phase = "initial"
    /\ hash = EmptyString
    /\ pendingHash = None
    /\ needsRender = FALSE
    /\ data = None
    /\ view = NoView
    /\ location = EmptyString
    /\ listening = FALSE
    /\ changes = 0

InitInstanceConfig ==
    /\ filterLogsIdle
    /\ phase = "initial"
    /\ hash = EmptyString
    /\ pendingHash = None
    /\ needsRender = FALSE
    /\ data \in {None} \cup {Some(d) : d \in Infos}
    /\ view = NoView
    /\ location \in Hashes
    /\ listening = FALSE
    /\ changes = 0

\* The first render: useState(() => document.location.hash) and the returned
\* elements.  The effects have not run yet.
Mount ==
    /\ phase = "initial"
    /\ phase' = "rendered"
    /\ hash' = location
    /\ view' = render(location, data)
    /\ UNCHANGED <<pendingHash, needsRender, data, location, listening, changes>>
    /\ UNCHANGED filterLogsVars

\* The effect after the first render: history.listen registers the listener.
RunEffect ==
    /\ phase = "rendered"
    /\ phase' = "subscribed"
    /\ listening' = TRUE
    /\ UNCHANGED <<hash, pendingHash, needsRender, data, view, location, changes>>
    /\ UNCHANGED filterLogsVars

\* The history moves to a location with hash h and calls its listeners; the
\* component's listener calls setHash(location.hash), which has no effect on
\* a component that is no longer mounted.
LocationChange(h) ==
    /\ changes < MaxChanges
    /\ changes' = changes + 1
    /\ location' = h
    /\ IF listening /\ Mounted
       THEN pendingHash' = Some(h) /\ needsRender' = TRUE
       ELSE UNCHANGED <<pendingHash, needsRender>>
    /\ UNCHANGED <<phase, hash, data, view, listening>>
    /\ UNCHANGED filterLogsVars

\* The query delivers a result and the component is scheduled to render.
DataLoaded(d) ==
    /\ Mounted
    /\ data # Some(d)
    /\ data' = Some(d)
    /\ needsRender' = TRUE
    /\ UNCHANGED <<phase, hash, pendingHash, view, location, listening, changes>>
    /\ UNCHANGED filterLogsVars

\* A scheduled render: a pending effect runs first, the queued setHash value
\* becomes the state, and the component returns its elements.
Render ==
    /\ Mounted
    /\ needsRender
    /\ phase' = "subscribed"
    /\ listening' = TRUE
    /\ hash' = IF pendingHash.some THEN pendingHash.v ELSE hash
    /\ pendingHash' = None
    /\ needsRender' = FALSE
    /\ view' = render(hash', data)
    /\ UNCHANGED <<data, location, changes>>
    /\ UNCHANGED filterLogsVars

\* The component is removed: a pending effect runs first, scheduled work is
\* dropped, and the effect's cleanup is left to run.
Unmount ==
    /\ Mounted
    /\ phase' = "unmounting"
    /\ listening' = TRUE
    /\ pendingHash' = None
    /\ needsRender' = FALSE
    /\ UNCHANGED <<hash, data, view, location, changes>>
    /\ UNCHANGED filterLogsVars

\* The cleanup of the effect: unlisten().
Cleanup ==
    /\ phase = "unmounting"
    /\ phase' = "unmounted"
    /\ listening' = FALSE
    /\ UNCHANGED <<hash, pendingHash, needsRender, data, view, location, changes>>
    /\ UNCHANGED filterLogsVars

NextInstanceConfig ==
    \/ Mount
    \/ RunEffect
    \/ \E h \in Hashes : LocationChange(h)
    \/ \E d \in Infos : DataLoaded(d)
    \/ Render
    \/ Unmount
    \/ Cleanup

SpecInstanceConfig == InitInstanceConfig /\ [][NextInstanceConfig]_vars

(***************************************************************************)
(* The specification: one call of filterLogs on arbitrary arguments        *)
(***************************************************************************)
Init ==
    /\ logs \in SeqsUpTo(Nodes, MaxLogs)
    /\ filter \in LogFilters
    /\ filterStepKeys \in StepKeyArrays
    /\ result = NoResult
    /\ pc = "ready"
    /\ instanceConfigIdle

\* Variant: the surviving records are written back into the input array.
CallFilteringInPlace ==
    /\ pc = "ready"
    /\ result' = filterLogs(logs, filter, filterStepKeys)
    /\ logs' = filteredNodesOf(logs, filter)
    /\ pc' = "done"
    /\ UNCHANGED <<filter, filterStepKeys>>
    /\ UNCHANGED instanceConfigVars

Call ==
    /\ pc = "ready"
    /\ result' = filterLogs(logs, filter, filterStepKeys)
    /\ pc' = "done"
    /\ UNCHANGED <<logs, filter, filterStepKeys>>
    /\ UNCHANGED instanceConfigVars

Next == Call

Spec == Init /\ [][Next]_vars

(***************************************************************************)
(* Vocabulary of the properties.  These definitions restate the contract   *)
(* independently of the operators above.                                   *)
(***************************************************************************)
Done == pc = "done"

Timestamp(node) == Number(node.timestamp)

visible == result.filteredNodes

textMatched == result.textMatchNodes

InSeq(x, s) == \E i \in 1..Len(s) : s[i] = x

\* a is b with some elements removed: same elements, same order, no copies.
\* Each element of a is looked for in b after the place of the one before.
RECURSIVE IsSubSeq(_, _)
IsSubSeq(a, b) ==
    IF a = <<>> THEN TRUE
    ELSE IF b = <<>> THEN FALSE
    ELSE IF Head(a) = Head(b) THEN IsSubSeq(Tail(a), Tail(b))
    ELSE IsSubSeq(a, Tail(b))

ReservedKinds == {"AssetMaterializationPlannedEvent", "AssetCheckEvaluationPlannedEvent"}

LevelOn(node) ==
    /\ logNodeLevel(node) \in DOMAIN filter.levels
    /\ filter.levels[logNodeLevel(node)] = TRUE

\* The time floor in force: a sinceTime that is present and not 0.
FloorInForce == filter.sinceTime.some /\ filter.sinceTime.v # 0

Survives(node) ==
    /\ node.__typename \notin ReservedKinds
    /\ LevelOn(node)
    /\ ~(FloorInForce /\ Timestamp(node) < filter.sinceTime.v)

\* The level/time-surviving set.
Surviving == SelectSeq(logs, Survives)

QueryActive == filter.logQuery # <<>> /\ Head(filter.logQuery).value # EmptyString

RelevantStepKeys == {filterStepKeys[i] : i \in 1..Len(filterStepKeys)}

HasNonEmptyStepKey(node) == node.stepKey.some /\ node.stepKey.v # EmptyString

ScopeHolds(node) == HasNonEmptyStepKey(node) /\ node.stepKey.v \in RelevantStepKeys

StepHolds(term, node) == HasNonEmptyStepKey(node) /\ node.stepKey.v = term.value

TypeHolds(term, node) ==
    node.eventType.some /\ eventTypeToDisplayType(node.eventType.v) = term.value

TextHolds(term, node) == includes(toLowerCase(node.message), toLowerCase(term.value))

TermHolds(term, node) ==
    CASE term.token = "query" -> ScopeHolds(node)
      [] term.token = "step" -> StepHolds(term, node)
      [] term.token = "type" -> TypeHolds(term, node)
      [] OTHER -> TextHolds(term, node)

AllTermsHold(node) ==
    \A i \in 1..Len(filter.logQuery) : TermHolds(filter.logQuery[i], node)

HasToken(token) == \E i \in 1..Len(filter.logQuery) : filter.logQuery[i].token = token

PassesKindAndLevel(node) == node.__typename \notin ReservedKinds /\ LevelOn(node)

Absent(node) == ~InSeq(node, visible) /\ ~InSeq(node, textMatched)

\* What the outputs hold of a record that kind, level and time let through.
ShownAsQueryDecides(node) ==
    /\ InSeq(node, visible) <=> (~(QueryActive /\ filter.hideNonMatches) \/ AllTermsHold(node))
    /\ InSeq(node, textMatched) <=> (QueryActive /\ AllTermsHold(node))

(***************************************************************************)
(* Properties                                                              *)
(***************************************************************************)

\* C1: for every input, visible and textMatched are sub-sequences of the
\* input records: every output element is an input element, in input order,
\* and no record occurs more often in an output than in the input.
C1_OutputsAreSubSequences ==
    Done => IsSubSeq(visible, logs) /\ IsSubSeq(textMatched, logs)

\* Two different records are both shown and both matched, in input order.
C1_Witness ==
    /\ Done
    /\ Len(logs) = 2 /\ logs[1] # logs[2]
    /\ visible = logs /\ textMatched = logs

\* C2: a record of one of the two planning kinds is never in visible nor in
\* textMatched, whatever the levels, sinceTime, query, hideNonMatches and
\* relevant step keys are.
C2_ReservedKindsNeverShown ==
    Done =>
        /\ \A i \in 1..Len(visible) : visible[i].__typename \notin ReservedKinds
        /\ \A i \in 1..Len(textMatched) : textMatched[i].__typename \notin ReservedKinds

\* A planning record whose level is on, that no time floor drops and that
\* satisfies every term of an active query, is left out.
C2_Witness ==
    /\ Done
    /\ QueryActive
    /\ \E i \in 1..Len(logs) :
        /\ logs[i].__typename = "AssetCheckEvaluationPlannedEvent"
        /\ LevelOn(logs[i])
        /\ ~(FloorInForce /\ Timestamp(logs[i]) < filter.sinceTime.v)
        /\ AllTermsHold(logs[i])
        /\ Absent(logs[i])

\* C3: a record whose level is switched off in filter.levels is in neither
\* visible nor textMatched, whatever the time floor, query and
\* hideNonMatches are.
C3_LevelGate ==
    Done =>
        \A i \in 1..Len(logs) :
            ( /\ logNodeLevel(logs[i]) \in DOMAIN filter.levels
              /\ filter.levels[logNodeLevel(logs[i])] = FALSE )
            => Absent(logs[i])

\* A record that only its switched-off level keeps out, next to a shown one.
C3_Witness ==
    /\ Done
    /\ visible # <<>>
    /\ \E i \in 1..Len(logs) :
        /\ logs[i].__typename \notin ReservedKinds
        /\ logNodeLevel(logs[i]) \in DOMAIN filter.levels
        /\ ~filter.levels[logNodeLevel(logs[i])]
        /\ ~(FloorInForce /\ Timestamp(logs[i]) < filter.sinceTime.v)
        /\ QueryActive /\ AllTermsHold(logs[i])
        /\ Absent(logs[i])

\* C4 as stated: for every sinceTime that is set, 0 included, a record with
\* timestamp < sinceTime is absent from both outputs and a record with
\* timestamp = sinceTime is not dropped by the floor; with sinceTime absent
\* no record is dropped on account of its timestamp.
C4_TimeFloorForEverySetValue ==
    Done =>
        \A i \in 1..Len(logs) :
            /\ (filter.sinceTime.some /\ Timestamp(logs[i]) < filter.sinceTime.v)
                => Absent(logs[i])
            /\ ( /\ PassesKindAndLevel(logs[i])
                 /\ (filter.sinceTime.some => Timestamp(logs[i]) >= filter.sinceTime.v) )
                => ShownAsQueryDecides(logs[i])

\* C4 amended: for every sinceTime that is set and not 0, a record with
\* timestamp < sinceTime is absent from both outputs and a record with
\* timestamp >= sinceTime (the tie included) is not dropped by the floor;
\* with sinceTime absent or 0 no record is dropped on account of its timestamp.
C4_TimeFloorForNonZeroValue ==
    Done =>
        \A i \in 1..Len(logs) :
            /\ (FloorInForce /\ Timestamp(logs[i]) < filter.sinceTime.v)
                => Absent(logs[i])
            /\ ( /\ PassesKindAndLevel(logs[i])
                 /\ (FloorInForce => Timestamp(logs[i]) >= filter.sinceTime.v) )
                => ShownAsQueryDecides(logs[i])

\* With a floor of 2, a record stamped 2 is shown and an earlier record that
\* passes kind and level is not.
C4_Witness ==
    /\ Done
    /\ filter.sinceTime = Some(2)
    /\ \E i \in 1..Len(logs) : \E j \in 1..Len(logs) :
        /\ Timestamp(logs[i]) = 2 /\ InSeq(logs[i], visible)
        /\ Timestamp(logs[j]) < 2 /\ PassesKindAndLevel(logs[j]) /\ Absent(logs[j])

\* C5: when logQuery is empty or its first term's value is the empty string
\* (whatever the first term's token and the later terms are), textMatched is
\* empty and visible is the level/time-surviving set, for either value of
\* hideNonMatches.
C5_EmptyQueryPassthrough ==
    (Done /\ ~QueryActive) => (textMatched = <<>> /\ visible = Surviving)

\* A step term with an empty value leads a query whose second term has a
\* value; hideNonMatches is on, and a record failing the query is shown.
C5_Witness ==
    /\ Done
    /\ Len(filter.logQuery) = 2
    /\ filter.logQuery[1].token = "step" /\ filter.logQuery[1].value = EmptyString
    /\ filter.logQuery[2].value # EmptyString
    /\ filter.hideNonMatches
    /\ textMatched = <<>>
    /\ \E i \in 1..Len(visible) : ~AllTermsHold(visible[i])

\* C6: when a query is active, textMatched is exactly the level/time-surviving
\* records, in order, for which every term of logQuery holds; a record that
\* fails a single term is left out and a record that satisfies all is in.
C6_AndSemantics ==
    (Done /\ QueryActive) => textMatched = SelectSeq(Surviving, AllTermsHold)

\* Against a step term "A" and a free-text term "foo", a record of step "A"
\* whose message contains "foo" is matched and a surviving record of another
\* step whose message contains "foo" is not.
C6_Witness ==
    /\ Done
    /\ filter.logQuery = <<Term("step", StepA), Term(NoToken, <<"f","O","o">>)>>
    /\ \E i \in 1..Len(logs) : \E j \in 1..Len(logs) :
        /\ logs[i].stepKey = Some(StepA)
        /\ InSeq(logs[i], textMatched)
        /\ logs[j].stepKey = Some(StepAB)
        /\ Survives(logs[j])
        /\ TextHolds(filter.logQuery[2], logs[j])
        /\ ~InSeq(logs[j], textMatched)

\* C7: with an active query, visible equals textMatched when hideNonMatches
\* is true and equals the whole level/time-surviving set when it is false.
C7_HideNonMatchesToggle ==
    (Done /\ QueryActive) =>
        IF filter.hideNonMatches THEN visible = textMatched ELSE visible = Surviving

\* hideNonMatches is off, the query matches some record, and a record that
\* does not match is visible.
C7_Witness ==
    /\ Done
    /\ QueryActive
    /\ ~filter.hideNonMatches
    /\ textMatched # <<>>
    /\ \E i \in 1..Len(visible) : ~InSeq(visible[i], textMatched)

\* The reading of "has a stepKey" under which C8 and C9 are stated: the
\* field is present, the empty string included.
ScopeHoldsAsStated(node) == node.stepKey.some /\ node.stepKey.v \in RelevantStepKeys

StepHoldsAsStated(term, node) == node.stepKey.some /\ node.stepKey.v = term.value

AllTermsHoldScopeAsStated(node) ==
    \A i \in 1..Len(filter.logQuery) :
        IF filter.logQuery[i].token = "query"
        THEN ScopeHoldsAsStated(node)
        ELSE TermHolds(filter.logQuery[i], node)

AllTermsHoldStepAsStated(node) ==
    \A i \in 1..Len(filter.logQuery) :
        IF filter.logQuery[i].token = "step"
        THEN StepHoldsAsStated(filter.logQuery[i], node)
        ELSE TermHolds(filter.logQuery[i], node)

\* C8 as stated: in an active query a scope term holds of a record iff the
\* record has a stepKey and that stepKey is among the relevant step keys.
C8_ScopeTermAnyStepKey ==
    (Done /\ QueryActive /\ HasToken("query")) =>
        \A i \in 1..Len(logs) :
            Survives(logs[i]) =>
                (InSeq(logs[i], textMatched) <=> AllTermsHoldScopeAsStated(logs[i]))

\* C8 amended: in an active query a scope term holds of a record iff the
\* record has a non-empty stepKey and that stepKey is among the relevant step
\* keys; with no relevant step key a query with a scope term matches
\* nothing, and a record without a stepKey, or with the empty string as
\* stepKey, never satisfies a scope term.
C8_ScopeTerm ==
    (Done /\ QueryActive /\ HasToken("query")) =>
        /\ \A i \in 1..Len(logs) :
            Survives(logs[i]) =>
                (InSeq(logs[i], textMatched) <=> AllTermsHold(logs[i]))
        /\ \A i \in 1..Len(logs) :
            ~HasNonEmptyStepKey(logs[i]) => ~InSeq(logs[i], textMatched)
        /\ RelevantStepKeys = {} => textMatched = <<>>

\* A single scope term keeps the record of a relevant step and leaves out a
\* surviving record of a step that is not relevant.
C8_Witness ==
    /\ Done
    /\ QueryActive
    /\ Len(filter.logQuery) = 1 /\ filter.logQuery[1].token = "query"
    /\ \E i \in 1..Len(logs) : \E j \in 1..Len(logs) :
        /\ logs[i].stepKey = Some(StepA) /\ InSeq(logs[i], textMatched)
        /\ logs[j].stepKey = Some(StepAB) /\ Survives(logs[j])
        /\ ~InSeq(logs[j], textMatched)

\* C9 as stated: in an active query a step term holds of a record iff the
\* record has a stepKey and that stepKey equals the term's value exactly.
C9_StepTermAnyStepKey ==
    (Done /\ QueryActive /\ HasToken("step")) =>
        \A i \in 1..Len(logs) :
            Survives(logs[i]) =>
                (InSeq(logs[i], textMatched) <=> AllTermsHoldStepAsStated(logs[i]))

\* C9 amended: in an active query a step term holds of a record iff the
\* record has a non-empty stepKey and that stepKey equals the term's value
\* exactly (no substring, no case folding); a record without a stepKey, or
\* with the empty string as stepKey, never satisfies a step term.
C9_StepTerm ==
    (Done /\ QueryActive /\ HasToken("step")) =>
        /\ \A i \in 1..Len(logs) :
            Survives(logs[i]) =>
                (InSeq(logs[i], textMatched) <=> AllTermsHold(logs[i]))
        /\ \A i \in 1..Len(logs) :
            ~HasNonEmptyStepKey(logs[i]) => ~InSeq(logs[i], textMatched)

\* A single step term "A" keeps the record of step "A" and leaves out a
\* surviving record of step "AB".
C9_Witness ==
    /\ Done
    /\ filter.logQuery = <<Term("step", StepA)>>
    /\ \E i \in 1..Len(logs) : \E j \in 1..Len(logs) :
        /\ logs[i].stepKey = Some(StepA) /\ InSeq(logs[i], textMatched)
        /\ logs[j].stepKey = Some(StepAB) /\ Survives(logs[j])
        /\ ~InSeq(logs[j], textMatched)

\* C10: in an active query a type term holds of a record iff the record has
\* an eventType whose display type equals the term's value; a record without
\* eventType never satisfies it; a single type term naming a surviving
\* record's display type puts the record in textMatched, and in visible when
\* hideNonMatches is true.
C10_TypeTerm ==
    (Done /\ QueryActive /\ HasToken("type")) =>
        /\ \A i \in 1..Len(logs) :
            Survives(logs[i]) =>
                (InSeq(logs[i], textMatched) <=> AllTermsHold(logs[i]))
        /\ \A i \in 1..Len(logs) :
            ~logs[i].eventType.some => ~InSeq(logs[i], textMatched)
        /\ filter.hideNonMatches =>
            \A i \in 1..Len(logs) :
                (Survives(logs[i]) /\ AllTermsHold(logs[i])) => InSeq(logs[i], visible)

\* A single type term MATERIALIZATION with hideNonMatches on: the
\* materialization record is matched and visible, a surviving record without
\* eventType is neither.
C10_Witness ==
    /\ Done
    /\ filter.logQuery = <<Term("type", MATERIALIZATION)>>
    /\ filter.hideNonMatches
    /\ \E i \in 1..Len(logs) : \E j \in 1..Len(logs) :
        /\ logs[i].eventType = Some("ASSET_MATERIALIZATION")
        /\ InSeq(logs[i], textMatched) /\ InSeq(logs[i], visible)
        /\ ~logs[j].eventType.some /\ Survives(logs[j])
        /\ Absent(logs[j])

\* Substring test that compares character by character, ignoring case.
SameLetter(a, b) == LowerChar(a) = LowerChar(b)

ContainsIgnoringCase(s, sub) ==
    \E off \in 0..(Len(s) - Len(sub)) :
        \A k \in 1..Len(sub) : SameLetter(s[off + k], sub[k])

RecognisedTokens == {"query", "step", "type"}

\* Every term holds, the terms that fall through to the free-text test
\* being decided by the case-ignoring substring test.
AllTermsHoldIgnoringCase(node) ==
    \A i \in 1..Len(filter.logQuery) :
        IF filter.logQuery[i].token \in RecognisedTokens
        THEN TermHolds(filter.logQuery[i], node)
        ELSE ContainsIgnoringCase(node.message, filter.logQuery[i].value)

\* C11: a term with the default token holds of a record iff the record's
\* message contains the term's value as a substring, the case of the letters
\* of both being ignored.
C11_FreeTextTerm ==
    (Done /\ QueryActive /\ HasToken(NoToken)) =>
        \A i \in 1..Len(logs) :
            Survives(logs[i]) =>
                (InSeq(logs[i], textMatched) <=> AllTermsHoldIgnoringCase(logs[i]))

\* A single free-text term "fOo" matches a record whose message is "Foo"
\* (the two differ in case at two places) and leaves out a surviving record
\* whose message does not contain it.
C11_Witness ==
    /\ Done
    /\ filter.logQuery = <<Term(NoToken, <<"f","O","o">>)>>
    /\ \E i \in 1..Len(logs) : \E j \in 1..Len(logs) :
        /\ logs[i].message = <<"F","o","o">> /\ InSeq(logs[i], textMatched)
        /\ Survives(logs[j]) /\ ~InSeq(logs[j], textMatched)

\* Before the call, the call can be made; after it, the outputs are two
\* sequences of input records and a record that lacks stepKey or eventType
\* is not matched by a query with a scope, step or type term.
ReturnsOnThisInput ==
    /\ pc = "ready" => ENABLED Call
    /\ Done =>
        /\ visible \in Seq(Nodes)
        /\ textMatched \in Seq(Nodes)
        /\ \A i \in 1..Len(logs) :
            /\ (~logs[i].stepKey.some /\ (HasToken("query") \/ HasToken("step")))
                => ~InSeq(logs[i], textMatched)
            /\ (~logs[i].eventType.some /\ HasToken("type"))
                => ~InSeq(logs[i], textMatched)
            /\ (Survives(logs[i]) /\ ~filter.hideNonMatches) => InSeq(logs[i], visible)

\* C12: filterLogs is total: on every input (an empty record sequence, any
\* levels table, sinceTime present or absent, any query, any relevant step
\* keys, records with or without stepKey and eventType) the call returns two
\* sequences of input records; a missing stepKey or eventType only makes the
\* scope, step and type terms false of the record.
C12_Total == []ReturnsOnThisInput

\* A record with neither stepKey nor eventType meets a query with a step and
\* a type term: the call returns, the record is visible and not matched,
\* and another record is matched.
C12_Witness ==
    /\ Done
    /\ QueryActive /\ HasToken("step") /\ HasToken("type")
    /\ ~filter.hideNonMatches
    /\ textMatched # <<>>
    /\ \E i \in 1..Len(logs) :
        /\ ~logs[i].stepKey.some /\ ~logs[i].eventType.some
        /\ InSeq(logs[i], visible) /\ ~InSeq(logs[i], textMatched)

\* C13: a call has no side effect on its arguments: the record sequence, the
\* filter (levels, sinceTime, logQuery, hideNonMatches) and the relevant step
\* keys are after the call what they were before it.
C13_ArgumentsUnchanged ==
    [][(pc = "ready" /\ pc' = "done") =>
        (logs' = logs /\ filter' = filter /\ filterStepKeys' = filterStepKeys)]_vars

\* A call that left a record out of both outputs: the input still holds it.
C13_Witness ==
    /\ Done
    /\ Len(logs) = 2
    /\ Len(visible) = 1
    /\ \E i \in 1..Len(logs) : Absent(logs[i])

\* C14: a record whose level has no entry in filter.levels is dropped as if
\* the entry were false: it is in neither output, and the call still returns
\* its two sequences.
C14_MissingLevelIsOff ==
    Done =>
        /\ result \in [filteredNodes : Seq(Nodes), textMatchNodes : Seq(Nodes)]
        /\ \A i \in 1..Len(logs) :
            logNodeLevel(logs[i]) \notin DOMAIN filter.levels => Absent(logs[i])

\* The table has no entry for the level of a record that nothing else would
\* drop; the record is left out while another record is shown.
C14_Witness ==
    /\ Done
    /\ visible # <<>>
    /\ \E i \in 1..Len(logs) :
        /\ logs[i].__typename \notin ReservedKinds
        /\ logNodeLevel(logs[i]) \notin DOMAIN filter.levels
        /\ ~(FloorInForce /\ Timestamp(logs[i]) < filter.sinceTime.v)
        /\ (QueryActive => AllTermsHold(logs[i]))
        /\ Absent(logs[i])

HasUnrecognisedToken ==
    \E i \in 1..Len(filter.logQuery) :
        filter.logQuery[i].token \notin (RecognisedTokens \cup {NoToken})

\* C15: a term whose token is none of the scope, step and type tokens is
\* evaluated as a free-text term, by the case-ignoring substring test of its
\* value against the message; it is neither ignored nor constant.
C15_UnrecognisedTokenIsFreeText ==
    (Done /\ QueryActive /\ HasUnrecognisedToken) =>
        \A i \in 1..Len(logs) :
            Survives(logs[i]) =>
                (InSeq(logs[i], textMatched) <=> AllTermsHoldIgnoringCase(logs[i]))

\* A single term "FAILED" with an unrecognised token matches the record
\* whose message is "Step Failed" and leaves out another surviving record.
C15_Witness ==
    /\ Done
    /\ filter.logQuery = <<Term("other", <<"F","A","I","L","E","D">>)>>
    /\ \E i \in 1..Len(logs) : \E j \in 1..Len(logs) :
        /\ logs[i].message = <<"S","t","e","p"," ","F","a","i","l","e","d">>
        /\ InSeq(logs[i], textMatched)
        /\ Survives(logs[j]) /\ ~InSeq(logs[j], textMatched)

RemoveAt(s, i) == [k \in 1..(Len(s) - 1) |-> IF k < i THEN s[k] ELSE s[k + 1]]

IsEmptyFreeText(term) == term.token = NoToken /\ term.value = EmptyString

\* C16: in an active query a free-text term with an empty value at a
\* non-first position holds of every record: the outputs are those of the
\* query without that term.
C16_EmptyFreeTextTermIsNeutral ==
    (Done /\ QueryActive) =>
        \A i \in 2..Len(filter.logQuery) :
            IsEmptyFreeText(filter.logQuery[i]) =>
                result = filterLogs(logs,
                                    [filter EXCEPT !.logQuery = RemoveAt(@, i)],
                                    filterStepKeys)

\* A free-text term "fOo" followed by an empty free-text term, with
\* hideNonMatches on: a record is matched and a surviving record is hidden.
C16_Witness ==
    /\ Done
    /\ filter.logQuery = <<Term(NoToken, <<"f","O","o">>), Term(NoToken, EmptyString)>>
    /\ filter.hideNonMatches
    /\ textMatched # <<>>
    /\ \E i \in 1..Len(logs) : Survives(logs[i]) /\ ~InSeq(logs[i], visible)

\* C18: for every input textMatched is a sub-sequence of visible and visible
\* is a sub-sequence of the level/time-surviving set: no record is reported
\* as a text match while hidden from the visible view.
C18_MatchedWithinVisible ==
    Done => IsSubSeq(textMatched, visible) /\ IsSubSeq(visible, Surviving)

\* hideNonMatches is off: of the visible records one is matched and one
\* is not.
C18_Witness ==
    /\ Done
    /\ QueryActive /\ ~filter.hideNonMatches
    /\ textMatched # <<>>
    /\ Len(textMatched) < Len(visible)

\* The result of the same call with hideNonMatches switched over.
ResultWithToggledHide ==
    filterLogs(logs, [filter EXCEPT !.hideNonMatches = ~@], filterStepKeys)

\* C19: hideNonMatches affects only visible: with the records, levels,
\* sinceTime, query and relevant step keys fixed, textMatched is the same
\* sequence for both values of hideNonMatches.
C19_HideLeavesMatchesAlone ==
    Done => textMatched = ResultWithToggledHide.textMatchNodes

\* The toggle changes visible while textMatched, which is not empty, stays.
C19_Witness ==
    /\ Done
    /\ QueryActive
    /\ textMatched # <<>>
    /\ visible # ResultWithToggledHide.filteredNodes

\* C20: filtering is idempotent: with the same filter and relevant step keys,
\* the call on visible returns visible again as its visible output, and with
\* an active query the call on textMatched returns textMatched again as its
\* textMatched output.
C20_Idempotent ==
    Done =>
        /\ filterLogs(visible, filter, filterStepKeys).filteredNodes = visible
        /\ QueryActive =>
            filterLogs(textMatched, filter, filterStepKeys).textMatchNodes = textMatched

\* A call that removed a record and kept another, with an active query and
\* hideNonMatches on.
C20_Witness ==
    /\ Done
    /\ QueryActive /\ filter.hideNonMatches
    /\ visible # <<>>
    /\ Len(visible) < Len(logs)
    /\ \E i \in 1..Len(logs) : Survives(logs[i]) /\ ~InSeq(logs[i], visible)

\* The sequences that hold the terms of s in some order.
Reorderings(s) ==
    {[i \in 1..Len(s) |-> s[p[i]]] : p \in Permutations(1..Len(s))}

AllValuesNonEmpty(q) == \A i \in 1..Len(q) : q[i].value # EmptyString

\* The query's first term has an empty value (and so the query is not active).
FirstValueEmpty(q) == q # <<>> /\ Head(q).value = EmptyString

\* C21: term order is irrelevant for non-empty terms: when every term of the
\* query has a non-empty value, the call with the terms in any other order
\* (same records, levels, sinceTime, hideNonMatches, relevant step keys)
\* returns the same visible and the same textMatched; with empty values in
\* the query, position matters only through the emptiness of the first
\* term's value.
C21_TermOrderIrrelevant ==
    Done =>
        \A q \in Reorderings(filter.logQuery) :
            (AllValuesNonEmpty(filter.logQuery)
                \/ (FirstValueEmpty(q) <=> FirstValueEmpty(filter.logQuery)))
            => result = filterLogs(logs, [filter EXCEPT !.logQuery = q], filterStepKeys)

\* A free-text term and a step term, both with non-empty values and in
\* this order: a record is matched and another surviving record is not.
C21_Witness ==
    /\ Done
    /\ filter.logQuery = <<Term(NoToken, <<"f","O","o">>), Term("step", StepA)>>
    /\ filter.hideNonMatches
    /\ textMatched # <<>>
    /\ \E i \in 1..Len(logs) : Survives(logs[i]) /\ ~InSeq(logs[i], textMatched)

\* The levels a table can switch.
AllLevels == {"DEBUG", "INFO", "EVENT"}

\* The level is disabled in the table: it has no entry or its entry is false.
LevelOff(levels, l) == l \notin DOMAIN levels \/ ~levels[l]

\* The table with one more level switched on.
WithLevelOn(levels, l) ==
    [x \in DOMAIN levels \cup {l} |-> IF x = l THEN TRUE ELSE levels[x]]

\* The result of the same call with level l switched on as well.
ResultWithLevelOn(l) ==
    filterLogs(logs, [filter EXCEPT !.levels = WithLevelOn(@, l)], filterStepKeys)

\* C22: monotonicity in levels: with the records, sinceTime, query,
\* hideNonMatches and relevant step keys fixed, switching one more level from
\* disabled to enabled removes no record: visible and textMatched under the
\* smaller level set are sub-sequences of those under the larger one.
C22_MonotoneInLevels ==
    Done =>
        \A l \in AllLevels :
            LevelOff(filter.levels, l) =>
                LET larger == ResultWithLevelOn(l)
                IN  /\ IsSubSeq(visible, larger.filteredNodes)
                    /\ IsSubSeq(textMatched, larger.textMatchNodes)

\* INFO is disabled and an event record is visible and matched; switching
\* INFO on makes both outputs longer.
C22_Witness ==
    /\ Done
    /\ LevelOff(filter.levels, "INFO")
    /\ QueryActive
    /\ textMatched # <<>>
    /\ Len(visible) < Len(ResultWithLevelOn("INFO").filteredNodes)
    /\ Len(textMatched) < Len(ResultWithLevelOn("INFO").textMatchNodes)

IsEmptyStepTerm(term) == term.token = "step" /\ term.value = EmptyString

\* C23: in an active query a step term with an empty value, which can only
\* stand at a non-first position, is false of every record, also of records
\* whose stepKey is absent or is the empty string: textMatched is empty (and
\* so is visible when non-matches are hidden).  It does not pass trivially
\* as an empty free-text term does.
C23_EmptyStepTermMatchesNothing ==
    (Done /\ QueryActive) =>
        \A i \in 1..Len(filter.logQuery) :
            IsEmptyStepTerm(filter.logQuery[i]) =>
                /\ i > 1
                /\ textMatched = <<>>
                /\ filter.hideNonMatches => visible = <<>>

\* A free-text term "fOo" followed by a step term with an empty value; a
\* surviving record whose stepKey is the empty string and another whose
\* stepKey is absent; without the step term the first one is matched.
C23_Witness ==
    /\ Done
    /\ filter.logQuery = <<Term(NoToken, <<"f","O","o">>), Term("step", EmptyString)>>
    /\ \E i \in 1..Len(logs) : \E j \in 1..Len(logs) :
        /\ Survives(logs[i]) /\ logs[i].stepKey = Some(EmptyString)
        /\ TextHolds(filter.logQuery[1], logs[i])
        /\ Survives(logs[j]) /\ logs[j].stepKey = None
    /\ textMatched = <<>>

(***************************************************************************)
(* InstanceConfig: highlight tracking                                      *)
(***************************************************************************)
\* No setHash value waits for a render.
HashSettled == ~pendingHash.some

\* The stored hash is the hash of the most recent location, once the
\* component is mounted with its effect run and nothing waits for a render.
HashIsCurrent ==
    (phase = "subscribed" /\ HashSettled /\ ~needsRender) => hash = location

\* In what the component shows, a section is highlighted iff '#' followed
\* by its id is the stored hash.
HighlightFollowsHash ==
    (Mounted /\ ~needsRender /\ ~view.spinner) =>
        \A i \in 1..Len(view.sections) :
            view.sections[i].highlighted <=> (<<"#">> \o view.sections[i].id = hash)

\* Once the cleanup has run the listener is gone.
ListenerRemoved == phase = "unmounted" => ~listening

\* A step taken after the unmount leaves the stored hash alone.
SilentAfterUnmount ==
    phase \in {"unmounting", "unmounted"} => (hash' = hash /\ pendingHash' = pendingHash)

\* C24: InstanceConfig highlight tracking: while the component is mounted,
\* after any sequence of location changes the stored hash is the hash of the
\* most recent location (the document hash at mount time if there was none);
\* a section is shown highlighted iff '#' followed by its id is the stored
\* hash; after the unmount the listener is removed and later location
\* changes update the hash no more.
C24_HighlightTracking ==
    [][/\ HashIsCurrent'
       /\ HighlightFollowsHash'
       /\ ListenerRemoved'
       /\ SilentAfterUnmount]_vars

====
